---- MODULE Spec2Model ----
(***************************************************************************)
(* Popcorn-Plots data pipeline: the canonical-key derivation, the columnar *)
(* pipeline (data-pipeline/src/__main__.py, postprocess.py) and the        *)
(* document export (data-pipeline/datasets.py).                           *)
(*                                                                         *)
(* Representation.                                                         *)
(*  - An integer id (imdbId, u32/i64) is its canonical decimal digit       *)
(*    sequence, most significant digit first, no leading zero (0 is <<0>>):*)
(*    ids of ten and more digits do not fit the model checker's integers.  *)
(*  - A key string (tconst) is a sequence of one-character strings, a raw  *)
(*    genres field a sequence of tag and "," tokens; other text is atomic. *)
(*  - A nullable cell is <<>> (null / None) or <<v>>.                      *)
(***************************************************************************)
EXTENDS Integers, Sequences, FiniteSets, TLC

VARIABLES
    pc,                     \* position in the running function
    alive,                  \* FALSE once the process has been interrupted
    ids, keys, parsed,      \* key normaliser: ids, derived keys, keys parsed back
    ml_links, ml_ratings,   \* MovieLens32M.links, MovieLens32M.ratings
    imdb_title_basics,      \* Imdb.title_basics
    ratings, title_basics,  \* main(): the two postprocessed tables
    ratings_filtered, title_basics_filtered,
    rating_counts, min_count_threshold, movies_above_threshold,
    n,                      \* process_movies_to_json(n, output_file)
    movies_with_imdb, ratings_sel, result,
    files                   \* the output paths' content on disk

keyVars == <<ids, keys, parsed>>
inVars == <<ml_links, ml_ratings, imdb_title_basics>>
colVars == <<ratings, title_basics, ratings_filtered, title_basics_filtered,
             rating_counts, min_count_threshold, movies_above_threshold>>
jsonVars == <<n, movies_with_imdb, ratings_sel, result>>
vars == <<pc, alive, keyVars, inVars, colVars, jsonVars, files>>

Null == <<>>
Some(v) == <<v>>
IsNull(c) == c = <<>>

Max(a, b) == IF a >= b THEN a ELSE b
Min(a, b) == IF a <= b THEN a ELSE b

(***************************************************************************)
(* Key Normalizer                                                          *)
(***************************************************************************)
DigitChars == <<"0", "1", "2", "3", "4", "5", "6", "7", "8", "9">>

\* pl.col("imdbId").cast(pl.String): the decimal text of an integer
CastString(v) == [i \in 1..Len(v) |-> DigitChars[v[i] + 1]]

KeyWidth == 7

RECURSIVE ZFillTrunc(_, _)
\* a fixed-width pad: keeps only the last w characters of a longer string
ZFillTrunc(s, w) ==
    IF Len(s) > w THEN SubSeq(s, Len(s) - w + 1, Len(s))
    ELSE IF Len(s) = w THEN s ELSE ZFillTrunc(<<"0">> \o s, w)

RECURSIVE ZFill(_, _)
\* str.zfill(w): left-pad with "0" up to width w, longer strings unchanged
ZFill(s, w) == IF Len(s) >= w THEN s ELSE ZFill(<<"0">> \o s, w)

\* pl.concat_str([pl.lit("tt"), imdbId.cast(String).str.zfill(7)])
TConst(v) == <<"t", "t">> \o ZFill(CastString(v), KeyWidth)

RECURSIVE FindTT(_, _)
\* index of the first occurrence of "tt" in s at or after i, 0 when none
FindTT(s, i) ==
    IF i + 1 > Len(s) THEN 0
    ELSE IF s[i] = "t" /\ s[i + 1] = "t" THEN i ELSE FindTT(s, i + 1)

\* str.replace("tt", ""): the first match of the pattern is removed
StrReplaceTT(s) ==
    LET i == FindTT(s, 1)
    IN  IF i = 0 THEN s ELSE SubSeq(s, 1, i - 1) \o SubSeq(s, i + 2, Len(s))

DigitOf(c) == CHOOSE d \in 0..9 : DigitChars[d + 1] = c
IsDigitChar(c) == \E d \in 0..9 : DigitChars[d + 1] = c

RECURSIVE StripZeros(_)
StripZeros(d) == IF Len(d) > 1 /\ d[1] = 0 THEN StripZeros(Tail(d)) ELSE d

\* 2^32 - 1 = 4294967295, the largest pl.UInt32
U32MaxDigits == <<4, 2, 9, 4, 9, 6, 7, 2, 9, 5>>

RECURSIVE LexLeq(_, _)
LexLeq(a, b) ==
    IF a = <<>> THEN TRUE
    ELSE IF a[1] # b[1] THEN a[1] < b[1] ELSE LexLeq(Tail(a), Tail(b))

\* a <= b for canonical digit sequences
NumLeq(a, b) ==
    IF Len(a) # Len(b) THEN Len(a) < Len(b) ELSE LexLeq(a, b)

CastError == <<-1>>

\* String -> pl.UInt32, strict: a non-numeric or out-of-range text raises
CastUInt32(s) ==
    IF s = <<>> \/ \E i \in 1..Len(s) : ~IsDigitChar(s[i]) THEN CastError
    ELSE LET d == StripZeros([i \in 1..Len(s) |-> DigitOf(s[i])])
         IN  IF NumLeq(d, U32MaxDigits) THEN d ELSE CastError

\* pl.col("id").str.replace("tt", "").cast(pl.UInt32) of one value
ParseTConst(s) == CastUInt32(StrReplaceTT(s))

\* the same expression on a column: the strict cast raises for the whole column
\* when any of its values fails, and no value is parsed
ParseIdColumn(col) ==
    IF \E i \in 1..Len(col) : ParseTConst(col[i]) = CastError
    THEN [raised |-> TRUE, values |-> <<>>]
    ELSE [raised |-> FALSE, values |-> [i \in 1..Len(col) |-> ParseTConst(col[i])]]

RECURSIVE Digits(_)
\* the digit sequence of a natural number
Digits(k) == IF k < 10 THEN <<k>> ELSE Append(Digits(k \div 10), k % 10)


(***************************************************************************)
(* Tables.  A rating is kept in half stars (rating * 2, so 0.5..5.0 is     *)
(* 1..10); a date is a day number since 1970-01-01.                        *)
(***************************************************************************)
RECURSIVE SumSeq(_)
SumSeq(s) == IF s = <<>> THEN 0 ELSE s[1] + SumSeq(Tail(s))

RECURSIVE SeqToSet(_)
SeqToSet(s) == IF s = <<>> THEN {} ELSE {s[1]} \cup SeqToSet(Tail(s))

\* every arrangement of the elements of a finite set
Perms(S) ==
    { f \in [1..Cardinality(S) -> S] :
        \A i, j \in 1..Cardinality(S) : i # j => f[i] # f[j] }

(***************************************************************************)
(* Text Filter                                                             *)
(***************************************************************************)
\* A genre text is a sequence of tokens: words, blanks and "," (the empty
\* text is the empty sequence); a tag is a text too.
excluded_genres ==
    { <<g>> : g \in {"Adult", "Film-Noir", "Game-Show", "Music", "News",
                     "Reality-TV", "Short", "Talk-Show"} }

allowed_title_types == {"movie", "tvMovie"}

NoGenresListed == <<"(no", " ", "genres", " ", "listed)">>

\* the characters str.strip() removes (str.isspace); one without an escape in
\* a string of this language is the token naming its code point
Whitespace ==
    {" ", "\t", "\n", "\r", "\f"}
    \cup {"U+000B", "U+001C", "U+001D", "U+001E", "U+001F", "U+0085", "U+00A0",
          "U+1680", "U+2000", "U+2001", "U+2002", "U+2003", "U+2004", "U+2005",
          "U+2006", "U+2007", "U+2008", "U+2009", "U+200A", "U+2028", "U+2029",
          "U+202F", "U+205F", "U+3000"}

RECURSIVE SplitComma(_)
\* str.split(","): the texts between the "," tokens, blanks included
SplitComma(s) ==
    IF \A i \in 1..Len(s) : s[i] # "," THEN <<s>>
    ELSE LET i == CHOOSE j \in 1..Len(s) :
                      s[j] = "," /\ \A k \in 1..(j - 1) : s[k] # ","
         IN  <<SubSeq(s, 1, i - 1)>> \o SplitComma(SubSeq(s, i + 1, Len(s)))

RECURSIVE Strip(_)
\* str.strip(): the text without its leading and trailing whitespace
Strip(g) ==
    IF g = <<>> THEN g
    ELSE IF g[1] \in Whitespace THEN Strip(Tail(g))
    ELSE IF g[Len(g)] \in Whitespace THEN Strip(SubSeq(g, 1, Len(g) - 1))
    ELSE g

\* [g.strip() for g in genres_str.split(",")]
SplitStripped(s) ==
    LET parts == SplitComma(s) IN [i \in 1..Len(parts) |-> Strip(parts[i])]

RECURSIVE JoinComma(_)
JoinComma(tags) ==
    IF Len(tags) = 1 THEN tags[1]
    ELSE tags[1] \o <<",">> \o JoinComma(Tail(tags))

NotExcluded(g) == g \notin excluded_genres

\* [g for g in genres if g not in excluded_genres]
RemoveExcluded(genres) == SelectSeq(genres, NotExcluded)

\* datasets.py should_include_movie
should_include_movie(genres_str, title_type) ==
    IF title_type \notin allowed_title_types THEN FALSE
    ELSE LET genres ==
                 IF genres_str = <<>> \/ genres_str = NoGenresListed
                    \/ genres_str = <<"\\N">>
                 THEN <<>>
                 ELSE SplitStripped(genres_str)
         IN  Len(RemoveExcluded(genres)) > 0

\* list.set_difference(excluded_genres): the distinct elements of the list that
\* are not excluded; a set operation, the order of its result is not promised
SetDifferenceResults(list) ==
    Perms({ g \in SeqToSet(list) : g \notin excluded_genres })

(***************************************************************************)
(* postprocess.py                                                          *)
(***************************************************************************)
SecondsPerDay == 86400
DaysPerWeek == 7

\* timestamp.mul(1000).cast(Datetime("ms")).dt.truncate("1w").cast(Date):
\* the Monday of the timestamp's week (1970-01-01 was a Thursday)
WeekStart(ts) ==
    LET day == ts \div SecondsPerDay
    IN  day - ((day + 3) % DaysPerWeek)

\* i64 -> pl.UInt32, strict
CastI64UInt32(v) == IF NumLeq(v, U32MaxDigits) THEN v ELSE CastError

\* join(data.links, on="movieId", how="left"): the imdbId cell of a rating row
LinkedImdbId(links, movieId) ==
    IF \E i \in 1..Len(links) : links[i].movieId = movieId
    THEN LET i == CHOOSE j \in 1..Len(links) : links[j].movieId = movieId
         IN  Some(CastI64UInt32(links[i].imdbId))
    ELSE Null

\* rating.mean().mul(10).cast(pl.UInt8) of a group with the given sum (in half
\* stars) and size: the cast drops the fraction
MeanTimes10(sumHalf, cnt) == (5 * sumHalf) \div cnt

\* the rows of the left join, with the date column
JoinedRatings(links, rt) ==
    [i \in 1..Len(rt) |->
        [imdbId |-> LinkedImdbId(links, rt[i].movieId),
         date |-> WeekStart(rt[i].timestamp),
         rating |-> rt[i].rating]]

\* group_by("imdbId", "date").agg(mean): one row per group, in no promised order
postprocess_movielens(links, rt) ==
    LET j == JoinedRatings(links, rt)
        InGroup(i, k, d) == j[i].imdbId = k /\ j[i].date = d
        Members(k, d) == { i \in 1..Len(j) : InGroup(i, k, d) }
        HalfSum(k, d) ==
            SumSeq([i \in 1..Len(j) |-> IF InGroup(i, k, d) THEN j[i].rating ELSE 0])
    IN  { [imdbId |-> j[i].imdbId, date |-> j[i].date,
           rating |-> MeanTimes10(HalfSum(j[i].imdbId, j[i].date),
                                  Cardinality(Members(j[i].imdbId, j[i].date)))]
          : i \in 1..Len(j) }

\* titleType.is_in({"movie", "tvMovie"}): null for a null cell, which filter drops
TitleTypeIsIn(cell) == ~IsNull(cell) /\ cell[1] \in allowed_title_types

RECURSIVE postprocess_imdb(_)
\* every table the function can return: one row per kept title, in input order
postprocess_imdb(tb) ==
    IF tb = <<>> THEN {<<>>}
    ELSE LET t == tb[1]
             rest == postprocess_imdb(Tail(tb))
         IN  IF IsNull(t.genres) THEN rest
             ELSE IF ~TitleTypeIsIn(t.titleType) THEN rest
             ELSE { IF Len(g) # 0
                    THEN <<[id |-> ParseTConst(t.tconst), title |-> t.primaryTitle,
                            year |-> t.startYear,
                            runtimeMinutes |-> t.runtimeMinutes,
                            genres |-> g]>> \o r
                    ELSE r
                    : g \in SetDifferenceResults(SplitComma(t.genres[1])),
                      r \in rest }

(***************************************************************************)
(* Output files.  A path holds no file, the complete artifact of an        *)
(* earlier run, or what this run has written to it so far.                 *)
(***************************************************************************)
RatingsPath == "out/ratings.parquet"
TitlesPath == "out/title_basics.parquet"
JsonPath == "movies_export.json"
Paths == {RatingsPath, TitlesPath, JsonPath}

NoFile == [stage |-> "absent", data |-> <<>>]
PreviousFile == [stage |-> "previous", data |-> <<>>]

\* open(path, "w") / File::create: the file exists and is empty from here on
Truncated(empty) == [stage |-> "truncated", data |-> empty]
\* the rows have been handed to the file; it is not closed yet
BodyWritten(payload) == [stage |-> "body", data |-> payload]
\* closed: footer written, buffers flushed
Closed(f) == [stage |-> "complete", data |-> f.data]

(***************************************************************************)
(* Inputs                                                                  *)
(***************************************************************************)
MaxEvents == 3
MaxTags == 3

\* links.csv: movies 1 and 2 are linked, movie 3 has no link row
LinksTable ==
    << [movieId |-> 1, imdbId |-> Digits(114709)],
       [movieId |-> 2, imdbId |-> Digits(12345678)] >>

\* Mon 2020-01-06 00:00:00, Sun 2020-01-12 23:59:59, Mon 2020-01-13 00:00:00 (UTC)
FirstMonday == 18267 * SecondsPerDay
TimeSamples ==
    {FirstMonday, FirstMonday + DaysPerWeek * SecondsPerDay - 1,
     FirstMonday + DaysPerWeek * SecondsPerDay}
\* 3.0, 4.0 and 5.0 stars
RatingSamples == {6, 8, 10}

\* events of the two linked movies
EventSamples ==
    [movieId : {1}, rating : RatingSamples, timestamp : TimeSamples]
    \cup [movieId : {2}, rating : {8}, timestamp : TimeSamples]

UnlinkedEvent == [movieId |-> 3, rating |-> 8, timestamp |-> FirstMonday]

\* ratings.csv: up to maxLen events of linked movies, after an event of the
\* unlinked movie or not
RatingTables(maxLen) ==
    { head \o t :
        head \in {<<>>, <<UnlinkedEvent>>},
        t \in UNION { [1..k -> EventSamples] : k \in 0..maxLen } }

\* one event at most, of 4.0 stars on the first Monday
PlainRatingTables ==
    { <<>>, <<UnlinkedEvent>>,
      <<[movieId |-> 1, rating |-> 8, timestamp |-> FirstMonday]>>,
      <<[movieId |-> 2, rating |-> 8, timestamp |-> FirstMonday]>> }

TitleRow(id, type, genres, title, endYear) ==
    [tconst |-> TConst(id), titleType |-> type,
     primaryTitle |-> title, startYear |-> Some(1995),
     endYear |-> endYear, runtimeMinutes |-> Some(81), genres |-> genres]

PlainTitle(i) ==
    TitleRow(LinksTable[i].imdbId, Some("movie"), Some(<<"Comedy">>),
             Some("Title"), Null)

\* title.basics.tsv with a plain row for any of the two linked ids
PlainTitleTables ==
    { <<>>, <<PlainTitle(1)>>, <<PlainTitle(2)>>, <<PlainTitle(1), PlainTitle(2)>> }

\* two plain tags, an excluded one, and the excluded one between a blank and a "\r"
TagSamples == {<<"Comedy">>, <<"Drama">>, <<"Short">>, <<" ", "Short", "\r">>}
TypeSamples == {Some("movie"), Some("tvMovie"), Some("tvSeries"), Null}

\* a raw genres cell: \N (null), the MovieLens marker, or 1..MaxTags tags
GenreSamples ==
    {Null, Some(NoGenresListed)}
    \cup { Some(JoinComma(t)) : t \in UNION { [1..k -> TagSamples] : k \in 1..MaxTags } }

\* any row for the first linked id, then a plain row for the second or none
VariedTitleTables ==
    { <<TitleRow(LinksTable[1].imdbId, ty, g, ti, ey)>> \o rest :
        ty \in TypeSamples, g \in GenreSamples,
        ti \in {Some("Title"), Null}, ey \in {Null, Some(1999)},
        rest \in {<<>>, <<PlainTitle(2)>>} }

PipelineInputs ==
    (RatingTables(MaxEvents) \X PlainTitleTables)
    \cup (PlainRatingTables \X VariedTitleTables)

KeyIdle == ids = <<>> /\ keys = <<>> /\ parsed = <<>>
ColIdle ==
    /\ ratings = {} /\ title_basics = <<>>
    /\ ratings_filtered = {} /\ title_basics_filtered = <<>>
    /\ rating_counts = <<>> /\ min_count_threshold = Null
    /\ movies_above_threshold = {}
JsonIdle ==
    /\ n = 0 /\ movies_with_imdb = <<>> /\ ratings_sel = <<>> /\ result = <<>>

(***************************************************************************)
(* __main__.py main(): the columnar pipeline                               *)
(***************************************************************************)
percentile_num == 3
percentile_den == 4

InitColumnar ==
    /\ pc = "main_start"
    /\ alive = TRUE
    /\ ml_links = LinksTable
    /\ \E in \in PipelineInputs :
        /\ ml_ratings = in[1]
        /\ imdb_title_basics = in[2]
    /\ files = [p \in Paths |-> NoFile]
    /\ KeyIdle /\ ColIdle /\ JsonIdle

\* ratings = postprocess_movielens(ml32m)
PostprocessMovielens ==
    /\ pc = "main_start" /\ alive
    /\ ratings' = postprocess_movielens(ml_links, ml_ratings)
    /\ pc' = "ml_done"
    /\ UNCHANGED <<alive, keyVars, inVars, jsonVars, files, title_basics,
                   ratings_filtered, title_basics_filtered, rating_counts,
                   min_count_threshold, movies_above_threshold>>

\* title_basics = postprocess_imdb(imdb)
\* the id column that with_columns casts: the rows left by drop_nulls("genres")
IdColumn(tb) ==
    LET HasGenres(t) == ~IsNull(t.genres)
        rows == SelectSeq(tb, HasGenres)
    IN  [i \in 1..Len(rows) |-> rows[i].tconst]

\* title_basics = postprocess_imdb(imdb); a failed cast of the id column raises
\* out of main
PostprocessImdb ==
    /\ pc = "ml_done" /\ alive
    /\ IF ParseIdColumn(IdColumn(imdb_title_basics)).raised
       THEN title_basics' = title_basics /\ pc' = "main_failed"
       ELSE title_basics' \in postprocess_imdb(imdb_title_basics) /\ pc' = "imdb_done"
    /\ UNCHANGED <<alive, keyVars, inVars, jsonVars, files, ratings,
                   ratings_filtered, title_basics_filtered, rating_counts,
                   min_count_threshold, movies_above_threshold>>

TitleIds(tb) == { tb[i].id : i \in 1..Len(tb) }
\* the non-null keys of a ratings table
RatingKeys(rs) == { r.imdbId[1] : r \in { x \in rs : ~IsNull(x.imdbId) } }

\* join(..., how="semi"): a null key matches nothing
SemiJoinRatingsOn(rs, keyset) ==
    { r \in rs : ~IsNull(r.imdbId) /\ r.imdbId[1] \in keyset }
\* the reverse pass left out
SemiJoinTitlesSkipped(tb, keyset) == tb

SemiJoinTitlesOn(tb, keyset) ==
    LET Keep(t) == t.id \in keyset IN SelectSeq(tb, Keep)

\* ratings_filtered = ratings.join(title_basics ids, how="semi")
SemiJoinRatings ==
    /\ pc = "imdb_done" /\ alive
    /\ ratings_filtered' = SemiJoinRatingsOn(ratings, TitleIds(title_basics))
    /\ pc' = "ratings_semi"
    /\ UNCHANGED <<alive, keyVars, inVars, jsonVars, files, ratings, title_basics,
                   title_basics_filtered, rating_counts, min_count_threshold,
                   movies_above_threshold>>

\* title_basics_filtered = title_basics.join(ratings_filtered ids, how="semi")
SemiJoinTitles ==
    /\ pc = "ratings_semi" /\ alive
    /\ title_basics_filtered' =
           SemiJoinTitlesOn(title_basics, RatingKeys(ratings_filtered))
    /\ pc' = "titles_semi"
    /\ UNCHANGED <<alive, keyVars, inVars, jsonVars, files, ratings, title_basics,
                   ratings_filtered, rating_counts, min_count_threshold,
                   movies_above_threshold>>

\* group_by("imdbId").agg(pl.len()): the number of rows of each key
GroupLen(rs) ==
    [k \in RatingKeys(rs) |->
        Cardinality({ r \in rs : ~IsNull(r.imdbId) /\ r.imdbId[1] = k })]

\* the counts in ascending order
SortedCounts(rc) ==
    LET order == CHOOSE f \in Perms(DOMAIN rc) :
                     \A i, j \in 1..Cardinality(DOMAIN rc) :
                         i < j => rc[f[i]] <= rc[f[j]]
    IN  [i \in 1..Cardinality(DOMAIN rc) |-> rc[order[i]]]

\* Expr.quantile(0.75), interpolation="nearest" by default: the order statistic
\* at index round((len - 1) * 0.75), null on an empty column
Quantile(rc) ==
    LET len == Cardinality(DOMAIN rc)
        idx == (2 * percentile_num * (len - 1) + percentile_den)
                   \div (2 * percentile_den)
    IN  IF len = 0 THEN Null ELSE Some(SortedCounts(rc)[idx + 1])

\* rating_counts, min_count_threshold, movies_above_threshold
ComputeThreshold ==
    /\ pc = "titles_semi" /\ alive
    /\ rating_counts' = GroupLen(ratings_filtered)
    /\ min_count_threshold' = Quantile(rating_counts')
    /\ movies_above_threshold' =
           { k \in DOMAIN rating_counts' :
               ~IsNull(min_count_threshold')
               /\ rating_counts'[k] >= min_count_threshold'[1] }
    /\ pc' = "threshold"
    /\ UNCHANGED <<alive, keyVars, inVars, jsonVars, files, ratings, title_basics,
                   ratings_filtered, title_basics_filtered>>

\* both tables semi-joined with movies_above_threshold
Prune ==
    /\ pc = "threshold" /\ alive
    /\ ratings_filtered' = SemiJoinRatingsOn(ratings_filtered, movies_above_threshold)
    /\ title_basics_filtered' =
           SemiJoinTitlesOn(title_basics_filtered, movies_above_threshold)
    /\ pc' = "pruned"
    /\ UNCHANGED <<alive, keyVars, inVars, jsonVars, files, ratings, title_basics,
                   rating_counts, min_count_threshold, movies_above_threshold>>

\* one step of writing a file: create it empty, write the rows, close it
WriteStep(from, path, payload, empty, opened, written, closed) ==
    /\ alive
    /\ \/ /\ pc = from
          /\ files' = [files EXCEPT ![path] = Truncated(empty)]
          /\ pc' = opened
       \/ /\ pc = opened
          /\ files' = [files EXCEPT ![path] = BodyWritten(payload)]
          /\ pc' = written
       \/ /\ pc = written
          /\ files' = [files EXCEPT ![path] = Closed(files[path])]
          /\ pc' = closed
    /\ UNCHANGED <<alive, keyVars, inVars, colVars, jsonVars>>

\* _write_parquet(ratings_filtered, ratings_path)
WriteRatings ==
    WriteStep("pruned", RatingsPath, ratings_filtered, {},
              "ratings_open", "ratings_body", "ratings_written")

\* _write_parquet(title_basics_filtered, title_basics_path)
WriteTitles ==
    WriteStep("ratings_written", TitlesPath, title_basics_filtered, <<>>,
              "titles_open", "titles_body", "main_done")

NextColumnar ==
    \/ PostprocessMovielens
    \/ PostprocessImdb
    \/ SemiJoinRatings
    \/ SemiJoinTitles
    \/ ComputeThreshold
    \/ Prune
    \/ WriteRatings
    \/ WriteTitles

SpecColumnar == InitColumnar /\ [][NextColumnar]_vars

(***************************************************************************)
(* datasets.py process_movies_to_json(n, output_file): the document export *)
(***************************************************************************)
ReviewLimit == 200
MaxN == 2
MaxDelta == 2

\* ratings.csv rows 1..len in file order: movie 1 only (stride 1) or the linked
\* and unlinked movies in turn; every event has its own timestamp
LongRatingTable(len, stride) ==
    [i \in 1..len |->
        [movieId |-> 1 + (i % stride), rating |-> 1 + (i % 10),
         timestamp |-> FirstMonday + i]]

\* lengths that put a movie's event count just below, at and above the limit
LongRatingTables ==
    { LongRatingTable(s * (ReviewLimit + d), s) :
        s \in 1..3, d \in (0 - MaxDelta)..MaxDelta }
    \cup { LongRatingTable(d, s) : s \in 1..3, d \in 0..MaxDelta }

JsonInputs ==
    (LongRatingTables \X PlainTitleTables)
    \cup (PlainRatingTables \X VariedTitleTables)

InitJson ==
    /\ pc = "json_start"
    /\ alive = TRUE
    /\ ml_links = LinksTable
    /\ \E in \in JsonInputs :
        /\ ml_ratings = in[1]
        /\ imdb_title_basics = in[2]
    /\ files = [p \in Paths |-> NoFile]
    /\ KeyIdle /\ ColIdle
    /\ n \in 0..MaxN
    /\ movies_with_imdb = <<>> /\ ratings_sel = <<>> /\ result = <<>>

NullTitle ==
    [titleType |-> Null, primaryTitle |-> Null, startYear |-> Null,
     endYear |-> Null, runtimeMinutes |-> Null, genres |-> Null]

JoinedRow(l, key, t) ==
    [movieId |-> l.movieId, imdbId |-> l.imdbId, tconst |-> key,
     titleType |-> t.titleType, primaryTitle |-> t.primaryTitle,
     startYear |-> t.startYear, endYear |-> t.endYear,
     runtimeMinutes |-> t.runtimeMinutes, genres |-> t.genres]

RECURSIVE LeftJoinTitles(_, _)
\* links_converted.join(title_basics, on="tconst", how="left"): the link rows in
\* order, each with its title row or with null title cells
LeftJoinTitles(links, tb) ==
    IF links = <<>> THEN <<>>
    ELSE LET l == links[1]
             key == TConst(l.imdbId)
             Match(t) == t.tconst = key
             hits == SelectSeq(tb, Match)
         IN  (IF hits = <<>> THEN <<JoinedRow(l, key, NullTitle)>>
              ELSE [i \in 1..Len(hits) |-> JoinedRow(l, key, hits[i])])
             \o LeftJoinTitles(Tail(links), tb)

JoinImdb ==
    /\ pc = "json_start" /\ alive
    /\ movies_with_imdb' = LeftJoinTitles(ml_links, imdb_title_basics)
    /\ pc' = "joined"
    /\ UNCHANGED <<alive, keyVars, inVars, colVars, files, n, ratings_sel, result>>

\* titleType is null, "movie" or "tvMovie"
TitleTypePasses(r) ==
    IsNull(r.titleType) \/ r.titleType[1] = "movie" \/ r.titleType[1] = "tvMovie"

FilterTitleType ==
    /\ pc = "joined" /\ alive
    /\ movies_with_imdb' = SelectSeq(movies_with_imdb, TitleTypePasses)
    /\ pc' = "type_filtered"
    /\ UNCHANGED <<alive, keyVars, inVars, colVars, files, n, ratings_sel, result>>

\* x["genres"] if x["genres"] else "": None and "" both give ""
OrEmpty(cell) == IF IsNull(cell) THEN <<>> ELSE cell[1]
\* x["titleType"] if x["titleType"] else ""
OrEmptyText(cell) == IF IsNull(cell) THEN "" ELSE cell[1]

\* the lambda handed to map_elements (excluded_genres is never empty)
IncludeRow(r) == should_include_movie(OrEmpty(r.genres), OrEmptyText(r.titleType))

FilterGenres ==
    /\ pc = "type_filtered" /\ alive
    /\ movies_with_imdb' = SelectSeq(movies_with_imdb, IncludeRow)
    /\ pc' = "genre_filtered"
    /\ UNCHANGED <<alive, keyVars, inVars, colVars, files, n, ratings_sel, result>>

\* the last k rows instead of the first
TailRows(s, k) == SubSeq(s, Len(s) - Min(k, Len(s)) + 1, Len(s))

\* DataFrame.head(k)
HeadRows(s, k) == SubSeq(s, 1, Min(k, Len(s)))

HeadN ==
    /\ pc = "genre_filtered" /\ alive
    /\ movies_with_imdb' = HeadRows(movies_with_imdb, n)
    /\ pc' = "head"
    /\ UNCHANGED <<alive, keyVars, inVars, colVars, files, n, ratings_sel, result>>

\* ratings = ml_data.ratings.filter(pl.col("movieId").is_in(movie_ids))
SelectRatings ==
    /\ pc = "head" /\ alive
    /\ LET movie_ids == { movies_with_imdb[i].movieId : i \in 1..Len(movies_with_imdb) }
           Wanted(e) == e.movieId \in movie_ids
       IN  ratings_sel' = SelectSeq(ml_ratings, Wanted)
    /\ pc' = IF movies_with_imdb = <<>> THEN "built" ELSE "building"
    /\ UNCHANGED <<alive, keyVars, inVars, colVars, files, n, movies_with_imdb, result>>

\* movie_ratings.head(200) as review objects
Reviews(rs, movie_id) ==
    LET Mine(e) == e.movieId = movie_id
        movie_ratings == HeadRows(SelectSeq(rs, Mine), ReviewLimit)
    IN  [i \in 1..Len(movie_ratings) |->
            [rating |-> movie_ratings[i].rating,
             timestamp |-> movie_ratings[i].timestamp]]

\* genres_list of a row
GenresList(r) ==
    LET genres_raw == OrEmpty(r.genres)
    IN  IF genres_raw # <<>> /\ genres_raw # <<"\\N">>
        THEN RemoveExcluded(SplitStripped(genres_raw))
        ELSE <<>>

FieldNames ==
    {"imdbId", "title", "startYear", "endYear", "runtimeMinutes", "titleType",
     "genres", "reviews"}
TextFields == {"title", "titleType"}

\* movie_obj before the sparse filter, every value as a cell
MovieObj(r, reviews) ==
    [imdbId |-> Some(r.tconst),
     title |-> Some(OrEmptyText(r.primaryTitle)),
     startYear |-> r.startYear,
     endYear |-> r.endYear,
     runtimeMinutes |-> r.runtimeMinutes,
     titleType |-> r.titleType,
     genres |-> Some(GenresList(r)),
     reviews |-> Some(reviews)]

\* a filter that drops the empty texts and keeps None
KeptWithNone(k, cell) ==
    IsNull(cell) \/ ~(k \in TextFields /\ cell[1] \in {"", "\\N"})

\* v is not None and v != "" and v != "\\N"
Kept(k, cell) ==
    ~IsNull(cell) /\ ~(k \in TextFields /\ cell[1] \in {"", "\\N"})

\* {k: v for k, v in movie_obj.items() if ...}: the kept keys with their cells
Sparse(obj) == [k \in { f \in FieldNames : Kept(f, obj[f]) } |-> obj[k]]

\* one turn of the loop over movies_with_imdb.iter_rows()
BuildMovie ==
    /\ pc = "building" /\ alive
    /\ LET r == movies_with_imdb[Len(result) + 1]
       IN  result' = Append(result, Sparse(MovieObj(r, Reviews(ratings_sel, r.movieId))))
    /\ pc' = IF Len(result') = Len(movies_with_imdb) THEN "built" ELSE "building"
    /\ UNCHANGED <<alive, keyVars, inVars, colVars, files, n, movies_with_imdb,
                   ratings_sel>>

\* with open(output_file, "w") as f: json.dump(result, f)
WriteJson ==
    WriteStep("built", JsonPath, result, <<>>, "json_open", "json_body", "json_done")

NextJson ==
    \/ JoinImdb
    \/ FilterTitleType
    \/ FilterGenres
    \/ HeadN
    \/ SelectRatings
    \/ BuildMovie
    \/ WriteJson

SpecJson == InitJson /\ [][NextJson]_vars

(***************************************************************************)
(* Key derivation on its own                                               *)
(***************************************************************************)
\* ids around the pad width and around the u32 limit
SampleIds ==
    { Digits(k) : k \in {0, 7, 10, 999999, 1000000, 9999999, 10000000,
                         12345678, 2147483647} }
    \cup { U32MaxDigits,
           <<4, 2, 9, 4, 9, 6, 7, 2, 9, 6>>,
           <<9, 9, 9, 9, 9, 9, 9, 9, 9, 9>>,
           <<1, 0, 0, 0, 0, 0, 0, 0, 0, 0, 7>> }

InitKey ==
    /\ pc = "key_start"
    /\ alive = TRUE
    /\ ids \in SampleIds \X SampleIds
    /\ keys = <<>>
    /\ parsed = <<>>
    /\ ml_links = <<>> /\ ml_ratings = <<>> /\ imdb_title_basics = <<>>
    /\ files = [p \in Paths |-> NoFile]
    /\ ColIdle /\ JsonIdle

\* datasets.py: links_converted, the forward derivation of both ids
DeriveKeys ==
    /\ pc = "key_start" /\ alive
    /\ keys' = <<TConst(ids[1]), TConst(ids[2])>>
    /\ pc' = "key_derived"
    /\ UNCHANGED <<alive, ids, parsed, inVars, colVars, jsonVars, files>>

\* postprocess.py: the id column of title_basics parsed back
ParseKeys ==
    /\ pc = "key_derived" /\ alive
    /\ parsed' = ParseIdColumn(keys)
    /\ pc' = "key_parsed"
    /\ UNCHANGED <<alive, ids, keys, inVars, colVars, jsonVars, files>>

NextKey == DeriveKeys \/ ParseKeys

SpecKey == InitKey /\ [][NextKey]_vars

InU32(v) == NumLeq(v, U32MaxDigits)

\* the text after "tt" is the id's decimal digits behind a run of "0" of length max(0, 7 - digits)
PaddedKeyOf(k, v) ==
    /\ Len(k) = 2 + Max(KeyWidth, Len(v))
    /\ k[1] = "t" /\ k[2] = "t"
    /\ \A i \in 1..Len(v) : k[Len(k) - Len(v) + i] = DigitChars[v[i] + 1]
    /\ \A i \in 3..(Len(k) - Len(v)) : k[i] = "0"

\* C1 (as stated): for every unsigned id the key is "tt" + digits padded to at
\* least 7, distinct ids give distinct keys, and parsing the key back returns the id
C1_Original ==
    pc = "key_parsed" =>
        /\ \A j \in 1..2 : PaddedKeyOf(keys[j], ids[j])
        /\ (ids[1] # ids[2] => keys[1] # keys[2])
        /\ ~parsed.raised /\ parsed.values = ids

\* C1 (amended): the key is "tt" + digits padded to at least 7 and injective for
\* every unsigned id; parsing a column of keys back returns every id when all of
\* them fit an unsigned 32-bit integer, and fails as a whole (the strict cast
\* raises) when one of them is above that
C1_KeyRoundTrip ==
    /\ pc \in {"key_derived", "key_parsed"} =>
        /\ \A j \in 1..2 : PaddedKeyOf(keys[j], ids[j])
        /\ (ids[1] # ids[2] => keys[1] # keys[2])
    /\ pc = "key_parsed" =>
        IF \A j \in 1..2 : InU32(ids[j])
        THEN ~parsed.raised /\ parsed.values = ids
        ELSE parsed.raised

\* an eight-digit id next to a one-digit id, both derived and parsed back
C1_Witness ==
    /\ pc = "key_parsed"
    /\ Len(ids[1]) = 8 /\ Len(ids[2]) = 1
    /\ Len(keys[1]) = 10 /\ Len(keys[2]) = 9
    /\ ~parsed.raised /\ parsed.values = ids


(***************************************************************************)
(* Both pipelines with the process killable at any point                   *)
(***************************************************************************)
InitWrite ==
    /\ pc \in {"main_start", "json_start"}
    /\ alive = TRUE
    /\ ml_links = LinksTable
    /\ ml_ratings \in PlainRatingTables
    /\ imdb_title_basics \in PlainTitleTables
    /\ files \in {[p \in Paths |-> NoFile], [p \in Paths |-> PreviousFile]}
    /\ KeyIdle /\ ColIdle
    /\ n = MaxN
    /\ movies_with_imdb = <<>> /\ ratings_sel = <<>> /\ result = <<>>

\* the process is killed (or fails) before it has finished
Interrupt ==
    /\ alive
    /\ pc \notin {"main_done", "json_done"}
    /\ alive' = FALSE
    /\ UNCHANGED <<pc, keyVars, inVars, colVars, jsonVars, files>>

NextWrite == NextColumnar \/ NextJson \/ Interrupt

SpecWrite == InitWrite /\ [][NextWrite]_vars

(***************************************************************************)
(* Properties of the columnar pipeline                                     *)
(***************************************************************************)
KeyCells(rs) == { r.imdbId : r \in rs }
TitleKeyCells(tb) == { Some(tb[i].id) : i \in 1..Len(tb) }

AfterSemiJoins == {"titles_semi", "threshold"}
AfterPrune ==
    {"pruned", "ratings_open", "ratings_body", "ratings_written", "titles_open",
     "titles_body", "main_done"}

\* C2: after the two semi-join passes, after the pruning, and in the two files
\* written, the ratings side and the titles side hold exactly the same keys
C2_MutualClosure ==
    /\ pc \in AfterSemiJoins \cup AfterPrune =>
           KeyCells(ratings_filtered) = TitleKeyCells(title_basics_filtered)
    /\ pc = "main_done" =>
           /\ files[RatingsPath].stage = "complete"
           /\ files[TitlesPath].stage = "complete"
           /\ KeyCells(files[RatingsPath].data) = TitleKeyCells(files[TitlesPath].data)

\* a finished run with an event that had no link row, a title dropped by the
\* semi-join, a key dropped by the pruning and a key left in both files
C2_Witness ==
    /\ pc = "main_done"
    /\ \E i \in 1..Len(ml_ratings) : ml_ratings[i].movieId = 3
    /\ Len(imdb_title_basics) = 2
    /\ movies_above_threshold # DOMAIN rating_counts
    /\ files[TitlesPath].data # <<>>
    /\ files[RatingsPath].data # {}

\* the number of rating events of key k
EventCount(k) ==
    Cardinality({ i \in 1..Len(ml_ratings) :
                    LinkedImdbId(ml_links, ml_ratings[i].movieId) = Some(k) })

\* C5: the count of a key that the threshold is computed from and compared with
\* is the number of rating events of that key
C5_CountsRatingEvents ==
    pc = "threshold" =>
        \A k \in DOMAIN rating_counts : rating_counts[k] = EventCount(k)

\* percentile_den times the 0.75 quantile by linear interpolation between the
\* two neighbouring order statistics
LinearQuantileTimesDen(rc) ==
    LET len == Cardinality(DOMAIN rc)
        s == SortedCounts(rc)
        h == percentile_num * (len - 1)
        lo == h \div percentile_den
        fr == h % percentile_den
    IN  percentile_den * s[lo + 1]
        + (IF fr = 0 THEN 0 ELSE fr * (s[lo + 2] - s[lo + 1]))

\* C6: the threshold is the linearly interpolated 0.75 quantile of the counts, and
\* the keys kept in both tables are those whose count reaches it
C6_LinearThreshold ==
    /\ (pc = "threshold" /\ DOMAIN rating_counts # {}) =>
        /\ ~IsNull(min_count_threshold)
        /\ percentile_den * min_count_threshold[1]
               = LinearQuantileTimesDen(rating_counts)
    /\ (pc = "pruned" /\ DOMAIN rating_counts # {}) =>
        LET kept == { k \in DOMAIN rating_counts :
                        percentile_den * rating_counts[k]
                            >= LinearQuantileTimesDen(rating_counts) }
        IN  /\ KeyCells(ratings_filtered) = { Some(k) : k \in kept }
            /\ TitleKeyCells(title_basics_filtered) = { Some(k) : k \in kept }

\* C7: one row per (key, Monday week) pair with an event, its rating the mean of
\* the pair's ratings times 10 rounded to the nearest integer, within 0..50
C7_WeeklyMeanRounded ==
    pc = "ml_done" =>
        LET j == JoinedRatings(ml_links, ml_ratings)
            Members(k, d) ==
                { i \in 1..Len(j) : j[i].imdbId = k /\ j[i].date = d }
            HalfSum(k, d) ==
                SumSeq([i \in 1..Len(j) |->
                           IF i \in Members(k, d) THEN j[i].rating ELSE 0])
            Dist(a, b) == IF a >= b THEN a - b ELSE b - a
        IN  /\ \A r \in ratings : Members(r.imdbId, r.date) # {}
            /\ \A i \in 1..Len(j) :
                 LET rows == { r \in ratings :
                                 r.imdbId = j[i].imdbId /\ r.date = j[i].date }
                     cnt == Cardinality(Members(j[i].imdbId, j[i].date))
                 IN  /\ Cardinality(rows) = 1
                     /\ \A r \in rows :
                          /\ r.rating \in 0..50
                          /\ 2 * Dist(5 * HalfSum(j[i].imdbId, j[i].date),
                                      r.rating * cnt) <= cnt

\* the genre list the text filter is specified to leave: the tags of the field
\* that are not excluded, in their order; none for a missing field or the marker
ExpectedGenres(cell) ==
    IF IsNull(cell) \/ cell[1] = NoGenresListed THEN <<>>
    ELSE RemoveExcluded(SplitComma(cell[1]))

\* C3: a title of an allowed type is dropped when no tag is left after removing
\* the excluded ones, and is otherwise kept with exactly the surviving tags in
\* their original order
C3_GenresCleanedInOrder ==
    pc = "imdb_done" =>
        \A i \in 1..Len(imdb_title_basics) :
            LET t == imdb_title_basics[i]
                e == ExpectedGenres(t.genres)
                rows == { k \in 1..Len(title_basics) :
                            title_basics[k].id = ParseTConst(t.tconst) }
            IN  TitleTypeIsIn(t.titleType) =>
                    IF e = <<>> THEN rows = {}
                    ELSE \E k \in rows : title_basics[k].genres = e

(***************************************************************************)
(* Properties of the document export                                       *)
(***************************************************************************)
\* C4: a title with a missing titleType and a genre tag left after the removal
\* is still there after the type and genre filters
C4_MissingTypeRetained ==
    pc = "genre_filtered" =>
        \A i \in 1..Len(imdb_title_basics) :
            LET t == imdb_title_basics[i]
            IN  ( /\ IsNull(t.titleType)
                  /\ ExpectedGenres(t.genres) # <<>>
                  /\ \E l \in 1..Len(ml_links) : TConst(ml_links[l].imdbId) = t.tconst )
                => \E k \in 1..Len(movies_with_imdb) :
                       movies_with_imdb[k].tconst = t.tconst

\* the events of a movie, as positions in the ratings table
EventsOf(m) == { i \in 1..Len(ml_ratings) : ml_ratings[i].movieId = m }

\* C8: the reviews of every exported movie are the first min(200, k) of its k
\* events in table order: only its events, in table order, none skipped, at most
\* 200 (a review is traced to its event by the timestamp, which the tables of
\* the model give to one event only)
C8_ReviewsArePrefix ==
    pc \in {"building", "built"} =>
        \A o \in 1..Len(result) :
            LET m == movies_with_imdb[o].movieId
                rv == result[o].reviews[1]
                pos == [i \in 1..Len(rv) |->
                           CHOOSE p \in 1..Len(ml_ratings) :
                               ml_ratings[p].timestamp = rv[i].timestamp]
                last == IF rv = <<>> THEN 0 ELSE pos[Len(rv)]
            IN  /\ Len(rv) = Min(ReviewLimit, Cardinality(EventsOf(m)))
                /\ \A i \in 1..Len(rv) :
                     /\ ml_ratings[pos[i]].movieId = m
                     /\ ml_ratings[pos[i]].rating = rv[i].rating
                     /\ i < Len(rv) => pos[i] < pos[i + 1]
                /\ Cardinality({ p \in EventsOf(m) : p <= last }) = Len(rv)

\* an exported movie with more than 200 events, other movies' events between
\* them, and exactly 200 reviews
C8_Witness ==
    /\ pc = "built"
    /\ Len(result) = 2
    /\ \E o \in 1..Len(result) :
         /\ Cardinality(EventsOf(movies_with_imdb[o].movieId)) > ReviewLimit
         /\ Len(result[o].reviews[1]) = ReviewLimit
    /\ Len(ml_ratings) > 2 * ReviewLimit

\* the value the export reads for a field of a joined row
FieldCell(r, k) ==
    CASE k = "imdbId" -> Some(r.tconst)
      [] k = "title" -> IF IsNull(r.primaryTitle) THEN Some("") ELSE r.primaryTitle
      [] k = "startYear" -> r.startYear
      [] k = "endYear" -> r.endYear
      [] k = "runtimeMinutes" -> r.runtimeMinutes
      [] k = "titleType" -> r.titleType
      [] OTHER -> Some(<<>>)

\* null, the empty string or the raw missing marker
IsMissing(k, cell) ==
    IsNull(cell) \/ (k \in TextFields /\ cell[1] \in {"", "\\N"})

\* C9: an exported object has a key exactly for the fields whose value is not
\* null, "" or "\N", and no key of it holds such a value
C9_SparseObjects ==
    pc \in {"building", "built"} =>
        \A o \in 1..Len(result) :
            /\ DOMAIN result[o] \subseteq FieldNames
            /\ \A k \in DOMAIN result[o] : ~IsMissing(k, result[o][k])
            /\ \A k \in FieldNames \ {"genres", "reviews"} :
                 /\ IsMissing(k, FieldCell(movies_with_imdb[o], k))
                        <=> k \notin DOMAIN result[o]
                 /\ k \in DOMAIN result[o] =>
                        result[o][k] = FieldCell(movies_with_imdb[o], k)
            /\ {"genres", "reviews"} \subseteq DOMAIN result[o]

\* an exported object without endYear and title keys, with its startYear
C9_Witness ==
    /\ pc = "built"
    /\ \E o \in 1..Len(result) :
         /\ IsNull(movies_with_imdb[o].endYear)
         /\ IsNull(movies_with_imdb[o].primaryTitle)
         /\ "endYear" \notin DOMAIN result[o]
         /\ "title" \notin DOMAIN result[o]
         /\ "startYear" \in DOMAIN result[o]

(***************************************************************************)
(* Property of the output files                                            *)
(***************************************************************************)
\* C10: once the process has been interrupted, every output path holds what it
\* held before the run or a complete artifact
C10_AtomicOutput ==
    ~alive =>
        \A p \in Paths : files[p].stage \in {"absent", "previous", "complete"}

====
